---- MODULE Spec2Model ----
(***************************************************************************)
(* Token ledger, referral engine and report jobs of sciencewizard-web      *)
(* (src/database.py, src/services/token_manager.py,                        *)
(*  src/services/referral_manager.py, src/services/report_generator.py,    *)
(*  src/server.py).                                                        *)
(*                                                                         *)
(* Every request runs on its own aiosqlite connection (database.get_db).   *)
(* A SELECT reads the committed tables; the statements between the first   *)
(* INSERT/UPDATE of a function and its db.commit() form one SQLite write   *)
(* transaction, which other connections see all at once.  A request is a   *)
(* process whose steps are these reads and write transactions; anything    *)
(* may run between two steps of the same request.                          *)
(*                                                                         *)
(* A report job runs as a background task on the server's event loop.  The *)
(* task and the requests interleave at their awaits only; what a coroutine  *)
(* does between two awaits is one step.                                     *)
(***************************************************************************)
EXTENDS Integers, Sequences, FiniteSets, TLC

VARIABLES
    user_tokens,          \* table user_tokens: user_id -> row, rows exist only once created
    token_transactions,   \* table token_transactions, in created_at order
    referrals,            \* table referrals, in rowid order
    pc,                   \* per request: the statement it is about to run
    req,                  \* per request: operation and arguments
    local,                \* per request: values read so far (user_tokens dict, referral row)
    result,               \* per request: what the call returned or raised
    jobs,                 \* table jobs: job id -> row
    running_jobs,         \* report_generator._running_jobs: job id -> generator.progress
    task,                 \* per job: where its background task is, and the exception it holds
    seen,                 \* per job: the progress the last answered status poll showed
    uploads,              \* table uploads: upload id -> row
    upload_dir,           \* settings.upload_dir: upload id -> the files in its directory
    feedback              \* table feedback, in rowid order

dbVars == <<user_tokens, token_transactions, referrals>>
jobVars == <<jobs, running_jobs, task, seen>>
uploadVars == <<uploads, upload_dir>>
vars == <<user_tokens, token_transactions, referrals, pc, req, local, result,
          jobs, running_jobs, task, seen, uploads, upload_dir, feedback>>

----------------------------------------------------------------------------
(* Bounds of the model *)

MaxTransactions == 3

Users == {"alice", "bob"}
Procs == {"r1", "r2"}

\* generate_referral_code: "VR-" + first three characters of the user id, upper
\* case, + three random digits; one suffix per user is drawn here.
CodesOf(u) == IF u = "alice" THEN {"VR-ALI123"} ELSE {"VR-BOB456"}
Codes == UNION {CodesOf(u) : u \in Users}

NULL == "NULL"

\* The referrers that ask for a code or invite, and user_id[:3].upper() of
\* each: user ids are uuid4 strings, and two may start with the same three
\* characters.
Referrers == {"alice", "alicia"}
UserPrefix == [alice |-> "ALI", alicia |-> "ALI", bob |-> "BOB"]

\* random.randint(100, 999): two of the numbers it may give.
Suffixes == {100, 101}

\* The e-mail addresses invitations go to.
Emails == {"carol@x.org", "dave@x.org"}

\* The jobs that get created: str(uuid.uuid4()) is a new id each time.
MaxJobs == 2
JobId(n) == "j" \o ToString(n)
JobIds == {JobId(n) : n \in 1..MaxJobs}

\* The requests to the job endpoints; they are served one after another,
\* while the background tasks run between their steps.
Clients == {"r1"}

\* The upload ids asked for: "up1" is the upload alice made before the requests
\* of the model start, "up0" is no upload.
UploadIds == {"up1", "up0"}

\* A file of an upload: its name, its extension, its size in bytes, and whether
\* it can be opened and read.
File(name, type, size, readable) ==
    [name |-> name, type |-> type, size |-> size, readable |-> readable]

\* save_uploaded_files: the entry of file_list for a file it has saved.
Descriptor(f) == [name |-> f.name, size |-> f.size, type |-> f.type]

\* The file of alice's upload "up1".
Notes == File("notes.txt", ".txt", 1, TRUE)

\* What the directory of "up1" may hold when a job reads it: the file as
\* uploaded, nothing, or the file and one document that cannot be read.
Directories ==
    {{Notes}, {}} \cup
    {{Notes, File("bad" \o type, type, 1, FALSE)} : type \in {".txt", ".docx", ".pdf"}}

\* Settings: the size limits of an upload, in megabytes, and the extensions
\* a file may have.
max_file_size_mb == 50
max_upload_size_mb == 100
allowed_extensions == {".csv", ".xlsx", ".xls", ".docx", ".pdf", ".txt"}

\* save_uploaded_files: the two limits in bytes.
MaxFileBytes == max_file_size_mb * 1024 * 1024
MaxUploadBytes == max_upload_size_mb * 1024 * 1024

\* The files of an upload request: at most MaxFiles of them, each a text file
\* of one byte, of the per-file limit or of one byte more, or a program.
MaxFiles == 3
FileKinds ==
    {[type |-> ".txt", size |-> n] : n \in {1, MaxFileBytes, MaxFileBytes + 1}}
    \cup {[type |-> ".exe", size |-> 1]}
Requests == UNION {[1..n -> FileKinds] : n \in 0..MaxFiles}

\* The i-th UploadFile of a request: its filename, suffix and content length.
UploadFile(kinds, i) ==
    File("f" \o ToString(i) \o kinds[i].type, kinds[i].type, kinds[i].size, TRUE)

\* str(uuid.uuid4()) of submit_feedback, in the order of the calls.
FeedbackIds == <<"fb1">>

\* str(uuid.uuid4()) of save_uploaded_files, in the order of the calls.
NewUploadIds == <<"up2", "up3">>

\* generate_simple: the fractions its _update_progress calls report
\* (0.1, 0.3, 0.5, 0.8, 1.0), in tenths.
Stages == <<1, 3, 5, 8, 10>>

\* str(e) of an exception a stage raises, and of one a store write raises.
ErrorTexts == {"", "generation failed"}
StoreError == "database is locked"

----------------------------------------------------------------------------
(* Static configuration *)

TOKEN_REQUIREMENTS ==
    [basic |-> 100, standard |-> 200, premium |-> 300, complex |-> 500]

DEFAULT_REQUIREMENT == 200

TOKEN_PACKAGES ==
    [starter      |-> [tokens |-> 150,  price |-> 139],
     professional |-> [tokens |-> 500,  price |-> 449],
     enterprise   |-> [tokens |-> 1000, price |-> 849]]

REFERRAL_REWARD_TOKENS == 25
REFEREE_DISCOUNT_PERCENT == 15
\* get_or_create_referral_code: max_attempts = 10
MAX_ATTEMPTS == 10

\* Arguments the requests are called with.
ProjectTypes == {"basic", "unknown"}
PackageNames == {"starter", "bogus"}

\* TOKEN_REQUIREMENTS.get(project_type, 200)
TokensNeeded(project_type) ==
    IF project_type \in DOMAIN TOKEN_REQUIREMENTS
    THEN TOKEN_REQUIREMENTS[project_type]
    ELSE DEFAULT_REQUIREMENT

----------------------------------------------------------------------------
(* Reading the tables *)

HasAccount(u) == u \in DOMAIN user_tokens

\* What get_user_tokens returns for u: the row, or the zero row it creates.
Balance(u) == IF HasAccount(u) THEN user_tokens[u].balance ELSE 0
TotalPurchased(u) == IF HasAccount(u) THEN user_tokens[u].total_purchased ELSE 0

RECURSIVE SumAmounts(_, _, _)
SumAmounts(txs, u, types) ==
    IF txs = <<>> THEN 0
    ELSE (IF Head(txs).user_id = u /\ Head(txs).type \in types
          THEN Head(txs).amount ELSE 0) + SumAmounts(Tail(txs), u, types)

TransactionTypes == {"purchase", "consumption", "referral_bonus"}

\* Sum of the signed amounts of all of u's transactions.
LedgerSum(u) == SumAmounts(token_transactions, u, TransactionTypes)

RECURSIVE NewestFirst(_, _)
NewestFirst(txs, u) ==
    IF txs = <<>> THEN <<>>
    ELSE LET rest == NewestFirst(SubSeq(txs, 1, Len(txs) - 1), u)
             last == txs[Len(txs)]
         IN  IF last.user_id = u THEN <<last>> \o rest ELSE rest

\* SELECT * FROM token_transactions WHERE user_id = ? ORDER BY created_at DESC LIMIT ?
get_token_transactions(u, limit) ==
    LET all == NewestFirst(token_transactions, u)
    IN  SubSeq(all, 1, IF Len(all) < limit THEN Len(all) ELSE limit)

RowsWithCode(code) == {i \in 1..Len(referrals) : referrals[i].referral_code = code}

\* SELECT * FROM referrals WHERE referral_code = ? ; fetchone()
HasReferral(code) == RowsWithCode(code) # {}
get_referral_by_code(code) ==
    referrals[CHOOSE i \in RowsWithCode(code) : \A j \in RowsWithCode(code) : i <= j]

----------------------------------------------------------------------------
(* Requests *)

\* A jobs row with no column set, and a background task that holds no exception.
NoJob == [user_id |-> NULL, upload_id |-> NULL, status |-> "", progress |-> 0,
          error |-> NULL, report_path |-> NULL, completed_at |-> NULL]
NoTask == [pc |-> "queued", error |-> NULL]

NoLocal == [balance |-> 0, total_purchased |-> 0, referrer_user_id |-> NULL,
            referral_code |-> "", attempt |-> 0, job |-> NoJob,
            files |-> <<>>, file_list |-> <<>>, total_size |-> 0,
            upload_id |-> ""]
NoResult == [raised |-> "", success |-> FALSE, balance |-> 0,
             total_purchased |-> 0, transactions |-> <<>>,
             valid |-> FALSE, referral_code |-> "",
             discount_percent |-> 0, reward_tokens |-> 0,
             job_id |-> "", status |-> "", progress |-> 0,
             error |-> NULL, report_path |-> NULL,
             upload_id |-> "", files |-> <<>>, feedback_id |-> ""]
NoReq == [op |-> "none", user_id |-> NULL, arg |-> ""]

\* The row get_user_tokens creates: balance 0, total_purchased 0.
ZeroRow == [balance |-> 0, total_purchased |-> 0]

\* Empty tables, no request in flight.

Init ==
    /\ user_tokens = [u \in {} |-> ZeroRow]
    /\ token_transactions = <<>>
    /\ referrals = <<>>
    /\ pc = [p \in Procs |-> "idle"]
    /\ req = [p \in Procs |-> NoReq]
    /\ local = [p \in Procs |-> NoLocal]
    /\ result = [p \in Procs |-> NoResult]
    /\ jobs = [j \in {} |-> NoJob]
    /\ running_jobs = [j \in {} |-> 0]
    /\ task = [j \in {} |-> NoTask]
    /\ seen = [j \in {} |-> 0]
    /\ uploads = [id \in {"up1"} |->
                    [user_id |-> "alice", files |-> <<Descriptor(Notes)>>]]
    /\ feedback = <<>>
    /\ upload_dir = [id \in {"up1"} |-> {Notes}]

----------------------------------------------------------------------------
(* get_user_tokens and add_tokens, as the requests use them *)

\* As AfterGetUserTokens, with the comparison of consume_tokens turned round
\* (amount < balance instead of balance < amount).
AfterGetUserTokensReversed(r, tokens) ==
    LET read == [NoLocal EXCEPT !.balance = tokens.balance,
                                !.total_purchased = tokens.total_purchased]
    IN  CASE r.op = "consume" ->
               IF TokensNeeded(r.arg) < tokens.balance
               THEN [pc |-> "done", local |-> read, result |-> NoResult]
               ELSE [pc |-> "consume_add", local |-> read, result |-> NoResult]
          [] r.op = "purchase" ->
               [pc |-> "done", local |-> read,
                result |-> [NoResult EXCEPT !.success = TRUE,
                                            !.balance = tokens.balance]]
          [] r.op = "eligibility" ->
               [pc |-> "done", local |-> read,
                result |-> [NoResult EXCEPT !.success = tokens.total_purchased > 0]]
          [] OTHER ->
               [pc |-> "balance_transactions", local |-> read, result |-> NoResult]

\* What a request does once get_user_tokens has returned `tokens`.
AfterGetUserTokens(r, tokens) ==
    LET read == [NoLocal EXCEPT !.balance = tokens.balance,
                                !.total_purchased = tokens.total_purchased]
    IN  CASE r.op = "consume" ->
               \* consume_tokens: if user_tokens["balance"] < amount: return False
               IF tokens.balance < TokensNeeded(r.arg)
               THEN [pc |-> "done", local |-> read, result |-> NoResult]
               ELSE [pc |-> "consume_add", local |-> read, result |-> NoResult]
          [] r.op = "purchase" ->
               \* purchase_tokens: "new_balance": updated_tokens["balance"]
               [pc |-> "done", local |-> read,
                result |-> [NoResult EXCEPT !.success = TRUE,
                                            !.balance = tokens.balance]]
          [] r.op = "eligibility" ->
               \* check_referral_eligibility: return tokens["total_purchased"] > 0
               [pc |-> "done", local |-> read,
                result |-> [NoResult EXCEPT !.success = tokens.total_purchased > 0]]
          [] OTHER ->
               \* get_user_balance: goes on to read the transactions
               [pc |-> "balance_transactions", local |-> read, result |-> NoResult]

Raised(name) == [pc |-> "done", local |-> NoLocal,
                 result |-> [NoResult EXCEPT !.raised = name]]

\* get_user_tokens, the SELECT: the row when there is one, else on to the INSERT.
SelectUserTokens(r) ==
    IF HasAccount(r.user_id)
    THEN AfterGetUserTokens(r, user_tokens[r.user_id])
    ELSE [pc |-> "tokens_insert", local |-> NoLocal, result |-> NoResult]

\* add_tokens: one transaction row, the balance UPDATE (which touches no row
\* when the user has none), and the total_purchased UPDATE for a purchase.
TokensAfterAdd(u, amount, type) ==
    IF HasAccount(u)
    THEN [user_tokens EXCEPT ![u] =
            [balance |-> @.balance + amount,
             total_purchased |-> IF type = "purchase"
                                 THEN @.total_purchased + amount
                                 ELSE @.total_purchased]]
    ELSE user_tokens

add_tokens(u, amount, type) ==
    /\ Len(token_transactions) < MaxTransactions
    /\ token_transactions' =
         Append(token_transactions, [user_id |-> u, type |-> type, amount |-> amount])
    /\ user_tokens' = TokensAfterAdd(u, amount, type)

\* A call starts, with its arguments.
Begin(p, r) ==
    /\ pc[p] = "idle"
    /\ req' = [req EXCEPT ![p] = r]

\* The request moves on to its next statement, or returns.
Goes(p, o) ==
    /\ pc' = [pc EXCEPT ![p] = o.pc]
    /\ local' = [local EXCEPT ![p] = o.local]
    /\ result' = [result EXCEPT ![p] = o.result]

----------------------------------------------------------------------------
(* Token ledger *)

\* TokenManager.consume_tokens_for_project -> consume_tokens, up to the SELECT
\* of get_user_tokens and, when the row is there, the balance check.
Consume(p) ==
    \E u \in Users, t \in ProjectTypes :
        LET r == [op |-> "consume", user_id |-> u, arg |-> t]
        IN  /\ Begin(p, r)
            /\ UNCHANGED dbVars
            /\ Goes(p, SelectUserTokens(r))

\* get_user_tokens, the INSERT of the zero row and its commit; the row may have
\* been created since the SELECT, and then the INSERT fails on the primary key.
TokensInsert(p) ==
    /\ pc[p] = "tokens_insert"
    /\ UNCHANGED <<token_transactions, referrals, req>>
    /\ IF HasAccount(req[p].user_id)
       THEN /\ UNCHANGED user_tokens
            /\ Goes(p, Raised("IntegrityError"))
       ELSE /\ user_tokens' = (req[p].user_id :> ZeroRow) @@ user_tokens
            /\ Goes(p, AfterGetUserTokens(req[p], ZeroRow))

\* consume_tokens: add_tokens(db, user_id, -amount, "consumption", ...); return True
ConsumeAdd(p) ==
    /\ pc[p] = "consume_add"
    /\ add_tokens(req[p].user_id, -TokensNeeded(req[p].arg), "consumption")
    /\ UNCHANGED <<referrals, req>>
    /\ Goes(p, [pc |-> "done", local |-> local[p],
                result |-> [NoResult EXCEPT !.success = TRUE]])

\* As PurchaseTokens, with an unknown package name falling back to a default
\* package (the way consume_tokens_for_project falls back to 200 tokens)
\* instead of being refused.
PurchaseTokensWithDefault(p) ==
    \E u \in Users, name \in PackageNames :
        LET r == [op |-> "purchase", user_id |-> u, arg |-> name]
            package == IF name \in DOMAIN TOKEN_PACKAGES
                       THEN TOKEN_PACKAGES[name] ELSE TOKEN_PACKAGES["starter"]
        IN  /\ Begin(p, r)
            /\ UNCHANGED referrals
            /\ add_tokens(u, package.tokens, "purchase")
            /\ Goes(p, [pc |-> "purchase_get", local |-> NoLocal,
                        result |-> NoResult])

\* TokenManager.purchase_tokens: the package check and add_tokens.
PurchaseTokens(p) ==
    \E u \in Users, name \in PackageNames :
        LET r == [op |-> "purchase", user_id |-> u, arg |-> name]
        IN  /\ Begin(p, r)
            /\ UNCHANGED referrals
            /\ IF name \notin DOMAIN TOKEN_PACKAGES
               THEN /\ UNCHANGED <<user_tokens, token_transactions>>
                    /\ Goes(p, Raised("ValueError"))
               ELSE /\ add_tokens(u, TOKEN_PACKAGES[name].tokens, "purchase")
                    /\ Goes(p, [pc |-> "purchase_get", local |-> NoLocal,
                                result |-> NoResult])

\* purchase_tokens: updated_tokens = await db.get_user_tokens(...), the SELECT
PurchaseGet(p) ==
    /\ pc[p] = "purchase_get"
    /\ UNCHANGED <<dbVars, req>>
    /\ Goes(p, SelectUserTokens(req[p]))

\* TokenManager.get_user_balance, up to the SELECT of get_user_tokens
GetUserBalance(p) ==
    \E u \in Users :
        LET r == [op |-> "get_balance", user_id |-> u, arg |-> ""]
        IN  /\ Begin(p, r)
            /\ UNCHANGED dbVars
            /\ Goes(p, SelectUserTokens(r))

\* ReferralManager.check_referral_eligibility, up to the SELECT of
\* get_user_tokens and, when the row is there, the comparison it returns.
CheckReferralEligibility(p) ==
    \E u \in Users :
        LET r == [op |-> "eligibility", user_id |-> u, arg |-> ""]
        IN  /\ Begin(p, r)
            /\ UNCHANGED dbVars
            /\ Goes(p, SelectUserTokens(r))

\* get_user_balance: get_token_transactions(database, user_id, limit=10)
BalanceTransactions(p) ==
    /\ pc[p] = "balance_transactions"
    /\ UNCHANGED <<dbVars, req>>
    /\ Goes(p, [pc |-> "done", local |-> local[p],
                result |-> [NoResult EXCEPT
                              !.success = TRUE,
                              !.balance = local[p].balance,
                              !.total_purchased = local[p].total_purchased,
                              !.transactions =
                                  get_token_transactions(req[p].user_id, 10)]])

----------------------------------------------------------------------------
(* Referral engine *)

NewReferral(u, code) ==
    [referrer_user_id |-> u, referral_code |-> code, referee_email |-> NULL,
     referee_user_id |-> NULL, tokens_awarded |-> 0]

\* create_referral: INSERT INTO referrals; referral_code is UNIQUE.
CreateReferral(p) ==
    \E u \in Users : \E code \in CodesOf(u) :
        LET r == [op |-> "create_referral", user_id |-> u, arg |-> code]
        IN  /\ Begin(p, r)
            /\ UNCHANGED <<user_tokens, token_transactions>>
            /\ IF HasReferral(code)
               THEN /\ UNCHANGED referrals
                    /\ Goes(p, Raised("IntegrityError"))
               ELSE /\ referrals' = Append(referrals, NewReferral(u, code))
                    /\ Goes(p, [pc |-> "done", local |-> NoLocal,
                                result |-> [NoResult EXCEPT !.success = TRUE]])

\* UPDATE referrals SET referee_user_id = ? WHERE referral_code = ?
ReferralsAfterSignup(code, referee) ==
    [i \in 1..Len(referrals) |->
        IF referrals[i].referral_code = code
        THEN [referrals[i] EXCEPT !.referee_user_id = referee]
        ELSE referrals[i]]

\* ReferralManager.process_referral_signup -> record_referral_signup
RecordSignup(p) ==
    \E code \in Codes, referee \in Users :
        LET r == [op |-> "record_signup", user_id |-> referee, arg |-> code]
        IN  /\ Begin(p, r)
            /\ UNCHANGED <<user_tokens, token_transactions>>
            /\ referrals' = ReferralsAfterSignup(code, referee)
            /\ Goes(p, [pc |-> "done", local |-> NoLocal,
                        result |-> [NoResult EXCEPT !.success = TRUE]])

\* As NotAwardable, without the test of tokens_awarded.
NotAwardableIgnoringAwarded(code) ==
    \/ ~HasReferral(code)
    \/ get_referral_by_code(code).referee_user_id = NULL

\* award_referral_tokens: if not referral or referral["referee_user_id"] is None
\*                           or referral["tokens_awarded"] > 0: return False
NotAwardable(code) ==
    \/ ~HasReferral(code)
    \/ get_referral_by_code(code).referee_user_id = NULL
    \/ get_referral_by_code(code).tokens_awarded > 0

\* ReferralManager.process_referral_reward -> award_referral_tokens, the SELECT
\* of the referral and the check.
Award(p) ==
    \E code \in Codes :
        LET r == [op |-> "award", user_id |-> NULL, arg |-> code]
        IN  /\ Begin(p, r)
            /\ UNCHANGED dbVars
            /\ IF NotAwardable(code)
               THEN Goes(p, [pc |-> "done", local |-> NoLocal, result |-> NoResult])
               ELSE Goes(p, [pc |-> "award_add",
                             local |-> [NoLocal EXCEPT
                                 !.referrer_user_id =
                                     get_referral_by_code(code).referrer_user_id],
                             result |-> NoResult])

\* award_referral_tokens: add_tokens(db, referral["referrer_user_id"], 25,
\*                                   "referral_bonus", ...)
AwardAdd(p) ==
    /\ pc[p] = "award_add"
    /\ add_tokens(local[p].referrer_user_id, REFERRAL_REWARD_TOKENS, "referral_bonus")
    /\ UNCHANGED <<referrals, req>>
    /\ Goes(p, [pc |-> "award_mark", local |-> local[p], result |-> NoResult])

\* UPDATE referrals SET tokens_awarded = 25 WHERE referral_code = ?
ReferralsAfterAward(code) ==
    [i \in 1..Len(referrals) |->
        IF referrals[i].referral_code = code
        THEN [referrals[i] EXCEPT !.tokens_awarded = 25]
        ELSE referrals[i]]

\* award_referral_tokens: mark as awarded, commit, return True
AwardMark(p) ==
    /\ pc[p] = "award_mark"
    /\ referrals' = ReferralsAfterAward(req[p].arg)
    /\ UNCHANGED <<user_tokens, token_transactions, req>>
    /\ Goes(p, [pc |-> "done", local |-> local[p],
                result |-> [NoResult EXCEPT !.success = TRUE]])

\* As Validatable, for a validation that turns down a code whose reward has
\* been paid.
ValidatableUnlessAwarded(code) ==
    HasReferral(code) /\ get_referral_by_code(code).tokens_awarded = 0

\* validate_referral_code: "if not referral: return {"valid": False, ...}"
Validatable(code) == HasReferral(code)

\* validate_referral_code, the answer for a code that has a referral.
ValidationOf(code) ==
    [NoResult EXCEPT !.valid = TRUE,
                     !.referral_code = code,
                     !.discount_percent = REFEREE_DISCOUNT_PERCENT,
                     !.reward_tokens = REFERRAL_REWARD_TOKENS]

\* ReferralManager.validate_referral_code, the SELECT of get_referral_by_code.
ValidateReferralCode(p) ==
    \E code \in Codes :
        /\ Begin(p, [op |-> "validate", user_id |-> NULL, arg |-> code])
        /\ UNCHANGED dbVars
        /\ IF Validatable(code)
           THEN Goes(p, [pc |-> "validate_referrer",
                         local |-> [NoLocal EXCEPT !.referrer_user_id =
                                      get_referral_by_code(code).referrer_user_id],
                         result |-> NoResult])
           ELSE Goes(p, [pc |-> "done", local |-> NoLocal, result |-> NoResult])

\* validate_referral_code, the SELECT of get_user_by_id and the answer; the
\* referrers are registered users, so the row is there.
ValidateReferrer(p) ==
    /\ pc[p] = "validate_referrer"
    /\ UNCHANGED <<dbVars, req>>
    /\ Goes(p, [pc |-> "done", local |-> local[p],
                result |-> ValidationOf(req[p].arg)])

----------------------------------------------------------------------------
(* Referral codes: get_or_create_referral_code and send_invitation *)

\* generate_referral_code: f"VR-{user_prefix}{random_suffix}", for the number
\* random.randint gave.
generate_referral_code(u, n) == "VR-" \o UserPrefix[u] \o ToString(n)

\* The referrals of a referrer, by their place in the table.
RowsOfReferrer(u) ==
    {i \in 1..Len(referrals) : referrals[i].referrer_user_id = u}

HasCode(u) == RowsOfReferrer(u) # {}

\* get_user_referral_code: SELECT ... WHERE referrer_user_id = ? LIMIT 1, the
\* first of the referrer's rows in the table's order.
get_user_referral_code(u) ==
    referrals[CHOOSE i \in RowsOfReferrer(u) :
                  \A j \in RowsOfReferrer(u) : i <= j]

\* As UniqueViolation, for a referrals table without the UNIQUE constraint.
UniqueViolationNever(code) == FALSE

\* referrals.referral_code TEXT UNIQUE NOT NULL: an INSERT of a code that a row
\* holds is rejected.
UniqueViolation(code) == HasReferral(code)

\* ReferralManager.get_or_create_referral_code, the SELECT of
\* get_user_referral_code: the existing code, or a generated one to check.
GetOrCreateReferralCode(p) ==
    \E u \in Referrers, n \in Suffixes :
        /\ Begin(p, [op |-> "get_or_create", user_id |-> u, arg |-> ""])
        /\ UNCHANGED dbVars
        /\ IF HasCode(u)
           THEN Goes(p, [pc |-> "done", local |-> NoLocal,
                         result |-> [NoResult EXCEPT
                                       !.success = TRUE,
                                       !.referral_code =
                                          get_user_referral_code(u).referral_code]])
           ELSE Goes(p, [pc |-> "code_check",
                         local |-> [NoLocal EXCEPT
                                      !.referral_code = generate_referral_code(u, n)],
                         result |-> NoResult])

\* As CodeCheck, with the loop test written attempt <= max_attempts.
CodeCheckOnceMore(p) ==
    /\ pc[p] = "code_check"
    /\ UNCHANGED <<dbVars, req>>
    /\ IF ~HasReferral(local[p].referral_code)
       THEN Goes(p, [pc |-> "code_create", local |-> local[p], result |-> NoResult])
       ELSE \E n \in Suffixes :
              Goes(p, [pc |-> IF local[p].attempt + 1 <= MAX_ATTEMPTS
                              THEN "code_check" ELSE "code_create",
                       local |-> [local[p] EXCEPT
                                    !.referral_code =
                                       generate_referral_code(req[p].user_id, n),
                                    !.attempt = @ + 1],
                       result |-> NoResult])

\* get_or_create_referral_code, one turn of "while attempt < max_attempts":
\* the SELECT of get_referral_by_code, then break, or a new code and
\* attempt += 1.
CodeCheck(p) ==
    /\ pc[p] = "code_check"
    /\ UNCHANGED <<dbVars, req>>
    /\ IF ~HasReferral(local[p].referral_code)
       THEN Goes(p, [pc |-> "code_create", local |-> local[p], result |-> NoResult])
       ELSE \E n \in Suffixes :
              Goes(p, [pc |-> IF local[p].attempt + 1 < MAX_ATTEMPTS
                              THEN "code_check" ELSE "code_create",
                       local |-> [local[p] EXCEPT
                                    !.referral_code =
                                       generate_referral_code(req[p].user_id, n),
                                    !.attempt = @ + 1],
                       result |-> NoResult])

\* get_or_create_referral_code: create_referral with the code the loop left,
\* then return it; the INSERT raises when the table holds the code.
CodeCreate(p) ==
    /\ pc[p] = "code_create"
    /\ UNCHANGED <<user_tokens, token_transactions, req>>
    /\ IF UniqueViolation(local[p].referral_code)
       THEN /\ UNCHANGED referrals
            /\ Goes(p, [pc |-> "done", local |-> local[p],
                        result |-> [NoResult EXCEPT !.raised = "IntegrityError"]])
       ELSE /\ referrals' = Append(referrals,
                                   NewReferral(req[p].user_id, local[p].referral_code))
            /\ Goes(p, [pc |-> "done", local |-> local[p],
                        result |-> [NoResult EXCEPT
                                      !.success = TRUE,
                                      !.referral_code = local[p].referral_code]])

\* ReferralManager.send_invitation -> send_referral_invitation, the SELECT of
\* get_user_referral_code: the existing code, or a generated one to insert.
SendInvitation(p) ==
    \E u \in Referrers, email \in Emails, n \in Suffixes :
        /\ Begin(p, [op |-> "send_invitation", user_id |-> u, arg |-> email])
        /\ UNCHANGED dbVars
        /\ IF HasCode(u)
           THEN Goes(p, [pc |-> "invite_email",
                         local |-> [NoLocal EXCEPT
                                      !.referral_code =
                                         get_user_referral_code(u).referral_code],
                         result |-> NoResult])
           ELSE Goes(p, [pc |-> "invite_create",
                         local |-> [NoLocal EXCEPT
                                      !.referral_code = generate_referral_code(u, n)],
                         result |-> NoResult])

\* send_referral_invitation: create_referral with the generated code; when the
\* INSERT raises, send_invitation catches it and answers "success": False.
InviteCreate(p) ==
    /\ pc[p] = "invite_create"
    /\ UNCHANGED <<user_tokens, token_transactions, req>>
    /\ IF UniqueViolation(local[p].referral_code)
       THEN /\ UNCHANGED referrals
            /\ Goes(p, [pc |-> "done", local |-> local[p], result |-> NoResult])
       ELSE /\ referrals' = Append(referrals,
                                   NewReferral(req[p].user_id, local[p].referral_code))
            /\ Goes(p, [pc |-> "invite_email", local |-> local[p],
                        result |-> NoResult])

\* UPDATE referrals SET referee_email = ? WHERE referral_code = ?
ReferralsAfterInvitation(code, email) ==
    [i \in 1..Len(referrals) |->
        IF referrals[i].referral_code = code
        THEN [referrals[i] EXCEPT !.referee_email = email]
        ELSE referrals[i]]

\* send_referral_invitation: record the e-mail, commit, return the code.
InviteEmail(p) ==
    /\ pc[p] = "invite_email"
    /\ referrals' = ReferralsAfterInvitation(local[p].referral_code, req[p].arg)
    /\ UNCHANGED <<user_tokens, token_transactions, req>>
    /\ Goes(p, [pc |-> "done", local |-> local[p],
                result |-> [NoResult EXCEPT
                              !.success = TRUE,
                              !.referral_code = local[p].referral_code]])

----------------------------------------------------------------------------
(* Report jobs: submission, the background task, status polls *)

\* create_job: INSERT INTO jobs (id, user_id, upload_id, status, created_at)
\* with status 'pending'; progress takes its DEFAULT 0.0.
create_job(job_id, user_id, upload_id) ==
    (job_id :> [NoJob EXCEPT !.user_id = user_id,
                             !.upload_id = upload_id,
                             !.status = "pending"]) @@ jobs

\* As update_job_status, with completed_at written for "completed" alone.
update_job_status_stamping_completed(job_id, status, progress, error, report_path) ==
    IF job_id \in DOMAIN jobs
    THEN [jobs EXCEPT ![job_id] =
            [@ EXCEPT !.status = status,
                      !.progress = progress,
                      !.error = IF error # NULL THEN error ELSE @,
                      !.report_path = IF report_path # NULL THEN report_path ELSE @,
                      !.completed_at = IF status = "completed"
                                       THEN "utcnow" ELSE @]]
    ELSE jobs

\* As update_job_status, with the error tested for truth ("if error:") and
\* not for None.
update_job_status_if_error(job_id, status, progress, error, report_path) ==
    IF job_id \in DOMAIN jobs
    THEN [jobs EXCEPT ![job_id] =
            [@ EXCEPT !.status = status,
                      !.progress = progress,
                      !.error = IF error # NULL /\ error # "" THEN error ELSE @,
                      !.report_path = IF report_path # NULL THEN report_path ELSE @,
                      !.completed_at = IF status \in {"completed", "failed"}
                                       THEN "utcnow" ELSE @]]
    ELSE jobs

\* As update_job_status, with no report_path written.
update_job_status_without_path(job_id, status, progress, error, report_path) ==
    IF job_id \in DOMAIN jobs
    THEN [jobs EXCEPT ![job_id] =
            [@ EXCEPT !.status = status,
                      !.progress = progress,
                      !.error = IF error # NULL THEN error ELSE @,
                      !.completed_at = IF status \in {"completed", "failed"}
                                       THEN "utcnow" ELSE @]]
    ELSE jobs

\* As update_job_status, with no progress written.
update_job_status_without_progress(job_id, status, progress, error, report_path) ==
    IF job_id \in DOMAIN jobs
    THEN [jobs EXCEPT ![job_id] =
            [@ EXCEPT !.status = status,
                      !.error = IF error # NULL THEN error ELSE @,
                      !.report_path = IF report_path # NULL THEN report_path ELSE @,
                      !.completed_at = IF status \in {"completed", "failed"}
                                       THEN "utcnow" ELSE @]]
    ELSE jobs

\* As update_job_status, with an UPDATE that has no WHERE id = ?.
update_job_status_every_row(job_id, status, progress, error, report_path) ==
    [j \in DOMAIN jobs |->
        [jobs[j] EXCEPT !.status = status,
                        !.progress = progress,
                        !.error = IF error # NULL THEN error ELSE @,
                        !.report_path = IF report_path # NULL THEN report_path ELSE @,
                        !.completed_at = IF status \in {"completed", "failed"}
                                         THEN "utcnow" ELSE @]]

\* update_job_status, its one UPDATE and commit: status always, progress (which
\* every caller passes), error and report_path when not None, completed_at
\* for "completed" and "failed".
update_job_status(job_id, status, progress, error, report_path) ==
    IF job_id \in DOMAIN jobs
    THEN [jobs EXCEPT ![job_id] =
            [@ EXCEPT !.status = status,
                      !.progress = progress,
                      !.error = IF error # NULL THEN error ELSE @,
                      !.report_path = IF report_path # NULL THEN report_path ELSE @,
                      !.completed_at = IF status \in {"completed", "failed"}
                                       THEN "utcnow" ELSE @]]
    ELSE jobs

\* run_generation_job's progress_callback, lambda p, m: db_update_callback(
\* job_id, "processing", p), run by asyncio.to_thread: the call of the async
\* update_callback makes a coroutine that nothing awaits, so its
\* update_job_status never runs and the table stays as it is.
progress_callback(job_id, progress) == jobs

\* The fraction generate_simple reports after the one it reported last.
NextStage(progress) ==
    Stages[1 + CHOOSE k \in 1..(Len(Stages) - 1) : Stages[k] = progress]

\* As GenerateReport, without the 403 check.
GenerateReportForAnyone(p) ==
    \E u \in Users, upload_id \in UploadIds :
        /\ Cardinality(DOMAIN jobs) < MaxJobs
        /\ Begin(p, [op |-> "generate", user_id |-> u, arg |-> upload_id])
        /\ UNCHANGED <<dbVars, jobVars, uploadVars, feedback>>
        /\ IF upload_id \notin DOMAIN uploads
           THEN Goes(p, Raised("404"))
           ELSE Goes(p, [pc |-> "generate_create", local |-> NoLocal,
                         result |-> NoResult])

\* generate_report (POST /api/generate), the SELECT of get_upload and the
\* 404 and 403 checks.
GenerateReport(p) ==
    \E u \in Users, upload_id \in UploadIds :
        /\ Cardinality(DOMAIN jobs) < MaxJobs
        /\ Begin(p, [op |-> "generate", user_id |-> u, arg |-> upload_id])
        /\ UNCHANGED <<dbVars, jobVars, uploadVars, feedback>>
        /\ IF upload_id \notin DOMAIN uploads
           THEN Goes(p, Raised("404"))
           ELSE IF uploads[upload_id].user_id # u
                THEN Goes(p, Raised("403"))
                ELSE Goes(p, [pc |-> "generate_create", local |-> NoLocal,
                              result |-> NoResult])

\* As GenerateCreate, for a handler that awaits the start of the job before
\* it answers.
GenerateCreateAwaitingStart(p) ==
    /\ pc[p] = "generate_create"
    /\ Cardinality(DOMAIN jobs) < MaxJobs
    /\ LET job_id == JobId(Cardinality(DOMAIN jobs) + 1)
       IN  /\ jobs' = create_job(job_id, req[p].user_id, req[p].arg)
           /\ task' = (job_id :> [NoTask EXCEPT !.pc = "generating"]) @@ task
           /\ running_jobs' = (job_id :> Stages[1]) @@ running_jobs
           /\ Goes(p, [pc |-> "done", local |-> NoLocal,
                       result |-> [NoResult EXCEPT !.success = TRUE,
                                                   !.job_id = job_id,
                                                   !.status = "processing"]])
    /\ UNCHANGED <<dbVars, uploadVars, feedback, req, seen>>

\* generate_report: create_job under a new id, add_task(run_generation_job),
\* and the JobResponse.
GenerateCreate(p) ==
    /\ pc[p] = "generate_create"
    /\ Cardinality(DOMAIN jobs) < MaxJobs
    /\ LET job_id == JobId(Cardinality(DOMAIN jobs) + 1)
       IN  /\ jobs' = create_job(job_id, req[p].user_id, req[p].arg)
           /\ task' = (job_id :> NoTask) @@ task
           /\ Goes(p, [pc |-> "done", local |-> NoLocal,
                       result |-> [NoResult EXCEPT !.success = TRUE,
                                                   !.job_id = job_id,
                                                   !.status = "processing"]])
    /\ UNCHANGED <<dbVars, uploadVars, feedback, req, running_jobs, seen>>

\* regenerate_report (POST /api/regenerate/{job_id}), the SELECT of get_job.
RegenerateReport(p) ==
    \E u \in Users, job_id \in JobIds :
        /\ Cardinality(DOMAIN jobs) < MaxJobs
        /\ Begin(p, [op |-> "regenerate", user_id |-> u, arg |-> job_id])
        /\ UNCHANGED <<dbVars, jobVars, uploadVars, feedback>>
        /\ IF job_id \in DOMAIN jobs
           THEN Goes(p, [pc |-> "regenerate_create",
                         local |-> [NoLocal EXCEPT !.job = jobs[job_id]],
                         result |-> NoResult])
           ELSE Goes(p, Raised("404"))

\* As RegenerateCreate, for a regenerate that retries the old job: its row is
\* written anew under its own id.
RegenerateCreateAsRetry(p) ==
    /\ pc[p] = "regenerate_create"
    /\ UNCHANGED <<dbVars, uploadVars, feedback, req, running_jobs, task, seen>>
    /\ IF local[p].job.user_id # req[p].user_id
       THEN /\ Goes(p, Raised("403"))
            /\ UNCHANGED jobs
       ELSE /\ jobs' = create_job(req[p].arg, req[p].user_id,
                                  local[p].job.upload_id)
            /\ Goes(p, [pc |-> "regenerate_task", local |-> local[p],
                        result |-> [NoResult EXCEPT !.job_id = req[p].arg]])

\* As RegenerateCreate, without the 403 check.
RegenerateCreateForAnyone(p) ==
    /\ pc[p] = "regenerate_create"
    /\ Cardinality(DOMAIN jobs) < MaxJobs
    /\ UNCHANGED <<dbVars, uploadVars, feedback, req, running_jobs, task, seen>>
    /\ LET job_id == JobId(Cardinality(DOMAIN jobs) + 1)
       IN  /\ jobs' = create_job(job_id, req[p].user_id, local[p].job.upload_id)
           /\ Goes(p, [pc |-> "regenerate_task", local |-> local[p],
                       result |-> [NoResult EXCEPT !.job_id = job_id]])

\* regenerate_report once get_job has returned the row: the 403 check, then
\* create_job under a new id with the old job's upload_id.
RegenerateCreate(p) ==
    /\ pc[p] = "regenerate_create"
    /\ UNCHANGED <<dbVars, uploadVars, feedback, req, running_jobs, task, seen>>
    /\ IF local[p].job.user_id # req[p].user_id
       THEN /\ Goes(p, Raised("403"))
            /\ UNCHANGED jobs
       ELSE /\ Cardinality(DOMAIN jobs) < MaxJobs
            /\ LET new_job_id == JobId(Cardinality(DOMAIN jobs) + 1)
               IN  /\ jobs' = create_job(new_job_id, req[p].user_id,
                                         local[p].job.upload_id)
                   /\ Goes(p, [pc |-> "regenerate_task", local |-> local[p],
                               result |-> [NoResult EXCEPT !.job_id = new_job_id]])

\* regenerate_report: get_upload for the path, add_task(run_generation_job),
\* and the response.
RegenerateTask(p) ==
    /\ pc[p] = "regenerate_task"
    /\ task' = (result[p].job_id :> NoTask) @@ task
    /\ Goes(p, [pc |-> "done", local |-> NoLocal,
                result |-> [result[p] EXCEPT !.success = TRUE,
                                             !.status = "processing"]])
    /\ UNCHANGED <<dbVars, uploadVars, feedback, req, jobs, running_jobs, seen>>

\* _categorize_files: the documents among the files of an upload.
DocFiles(files) == {f \in files : f.type \in {".docx", ".pdf", ".txt"}}

\* _extract_text_from_docs on a document that cannot be read: read_text of a
\* .txt raises; the .docx branch catches every exception and passes; the .pdf
\* branch catches ImportError alone, so the file's error propagates when
\* PyMuPDF is installed and nothing is raised when it is not.
ExtractionMustRaise(files) ==
    \E f \in DocFiles(files) : ~f.readable /\ f.type = ".txt"

ExtractionMayRaise(files) ==
    \E f \in DocFiles(files) : ~f.readable /\ f.type \in {".txt", ".pdf"}

\* run_generation_job up to its first await: ReportGenerator(...), whose mkdir
\* is outside the try and may raise, leaving the task at once; else the
\* generator goes into _running_jobs and generate_simple reports 0.1.
TaskStart(j) ==
    /\ j \in DOMAIN task
    /\ task[j].pc = "queued"
    /\ \/ /\ running_jobs' = (j :> Stages[1]) @@ running_jobs
          /\ jobs' = progress_callback(j, Stages[1])
          /\ task' = [task EXCEPT ![j].pc = "generating"]
       \/ /\ task' = [task EXCEPT ![j].pc = "ended"]
          /\ UNCHANGED <<jobs, running_jobs>>
    /\ UNCHANGED <<dbVars, uploadVars, feedback, pc, req, local, result, seen>>

\* As TaskStage, with a formatter whose exception is swallowed: the task goes
\* on to the completed write.
TaskStageSwallowingSaveError(j) ==
    /\ j \in DOMAIN task
    /\ task[j].pc = "generating"
    /\ \/ /\ running_jobs[j] = Stages[2]
             => ~ExtractionMustRaise(upload_dir[jobs[j].upload_id])
          /\ running_jobs' = [running_jobs EXCEPT ![j] = NextStage(@)]
          /\ jobs' = progress_callback(j, NextStage(running_jobs[j]))
          /\ task' = [task EXCEPT ![j].pc =
                         IF NextStage(running_jobs[j]) = Stages[Len(Stages)]
                         THEN "write_completed" ELSE "generating"]
       \/ \E e \in ErrorTexts :
             /\ running_jobs[j] = Stages[2]
                => ExtractionMayRaise(upload_dir[jobs[j].upload_id])
             /\ task' = [task EXCEPT ![j] =
                           [pc |-> IF running_jobs[j] = Stages[Len(Stages) - 1]
                                   THEN "write_completed" ELSE "write_failed",
                            error |-> e]]
             /\ UNCHANGED <<jobs, running_jobs>>
    /\ UNCHANGED <<dbVars, uploadVars, feedback, pc, req, local, result, seen>>

\* generate_simple from one _update_progress to the next: the stage's work
\* returns and the next fraction is reported, or it raises and
\* run_generation_job goes to its except branch.  The stages are loading
\* (_categorize_files, which takes a directory without documents as it
\* is), extraction, whose outcome the documents decide, the generative call,
\* and formatting and saving.
TaskStage(j) ==
    /\ j \in DOMAIN task
    /\ task[j].pc = "generating"
    /\ \/ /\ running_jobs[j] = Stages[2]
             => ~ExtractionMustRaise(upload_dir[jobs[j].upload_id])
          /\ running_jobs' = [running_jobs EXCEPT ![j] = NextStage(@)]
          /\ jobs' = progress_callback(j, NextStage(running_jobs[j]))
          /\ task' = [task EXCEPT ![j].pc =
                         IF NextStage(running_jobs[j]) = Stages[Len(Stages)]
                         THEN "write_completed" ELSE "generating"]
       \/ \E e \in ErrorTexts :
             /\ running_jobs[j] = Stages[2]
                => ExtractionMayRaise(upload_dir[jobs[j].upload_id])
             /\ task' = [task EXCEPT ![j] = [pc |-> "write_failed", error |-> e]]
             /\ UNCHANGED <<jobs, running_jobs>>
    /\ UNCHANGED <<dbVars, uploadVars, feedback, pc, req, local, result, seen>>

\* As WriteCompleted, with a write that may raise after it has committed.
WriteCompletedRaisingLate(j) ==
    /\ j \in DOMAIN task
    /\ task[j].pc = "write_completed"
    /\ jobs' = update_job_status(j, "completed", Stages[Len(Stages)], NULL,
                                 "reports/" \o j \o "/manuscript.docx")
    /\ \/ task' = [task EXCEPT ![j].pc = "finally"]
       \/ task' = [task EXCEPT ![j] = [pc |-> "write_failed", error |-> StoreError]]
    /\ UNCHANGED <<dbVars, uploadVars, feedback, pc, req, local, result, running_jobs, seen>>

\* run_generation_job: await db_update_callback(job_id, "completed", 1.0,
\* report_path=report_path); the write commits, or it raises and changes
\* nothing.
WriteCompleted(j) ==
    /\ j \in DOMAIN task
    /\ task[j].pc = "write_completed"
    /\ \/ /\ jobs' = update_job_status(j, "completed", Stages[Len(Stages)], NULL,
                                       "reports/" \o j \o "/manuscript.docx")
          /\ task' = [task EXCEPT ![j].pc = "finally"]
       \/ /\ task' = [task EXCEPT ![j] = [pc |-> "write_failed", error |-> StoreError]]
          /\ UNCHANGED jobs
    /\ UNCHANGED <<dbVars, uploadVars, feedback, pc, req, local, result, running_jobs, seen>>

\* As WriteFailed, with a write that records the fraction the failed stage
\* would have reported.
WriteFailedAtFailedStage(j) ==
    /\ j \in DOMAIN task
    /\ task[j].pc = "write_failed"
    /\ \/ jobs' = update_job_status(j, "failed",
                                     IF running_jobs[j] = Stages[Len(Stages)]
                                     THEN running_jobs[j]
                                     ELSE NextStage(running_jobs[j]),
                                     task[j].error, NULL)
       \/ UNCHANGED jobs
    /\ task' = [task EXCEPT ![j].pc = "finally"]
    /\ UNCHANGED <<dbVars, uploadVars, feedback, pc, req, local, result, running_jobs, seen>>

\* run_generation_job: await db_update_callback(job_id, "failed",
\* generator.progress, error=str(e)); the write commits, or it raises and the
\* exception leaves the task.
WriteFailed(j) ==
    /\ j \in DOMAIN task
    /\ task[j].pc = "write_failed"
    /\ \/ jobs' = update_job_status(j, "failed", running_jobs[j], task[j].error, NULL)
       \/ UNCHANGED jobs
    /\ task' = [task EXCEPT ![j].pc = "finally"]
    /\ UNCHANGED <<dbVars, uploadVars, feedback, pc, req, local, result, running_jobs, seen>>

\* run_generation_job, finally: del _running_jobs[job_id]
TaskFinally(j) ==
    /\ j \in DOMAIN task
    /\ task[j].pc = "finally"
    /\ running_jobs' = [k \in DOMAIN running_jobs \ {j} |-> running_jobs[k]]
    /\ task' = [task EXCEPT ![j].pc = "ended"]
    /\ UNCHANGED <<dbVars, uploadVars, feedback, pc, req, local, result, jobs, seen>>

\* get_job_progress: the generator's progress when the job is in _running_jobs.
HasJobProgress(job_id) == job_id \in DOMAIN running_jobs

\* get_job_status (GET /api/status/{job_id}), the SELECT of get_job.
GetJobStatus(p) ==
    \E u \in Users, job_id \in JobIds :
        /\ Begin(p, [op |-> "status", user_id |-> u, arg |-> job_id])
        /\ UNCHANGED <<dbVars, jobVars, uploadVars, feedback>>
        /\ IF job_id \in DOMAIN jobs
           THEN Goes(p, [pc |-> "status_progress",
                         local |-> [NoLocal EXCEPT !.job = jobs[job_id]],
                         result |-> NoResult])
           ELSE Goes(p, Raised("404"))

\* get_job_status once get_job has returned the row: the 403 check, then
\* live_progress = get_job_progress(job_id) and the JobResponse, with
\* progress = live_progress if live_progress is not None else job["progress"].
StatusAnswer(p) ==
    /\ pc[p] = "status_progress"
    /\ UNCHANGED <<dbVars, uploadVars, feedback, req, jobs, running_jobs, task>>
    /\ IF local[p].job.user_id # req[p].user_id
       THEN Goes(p, Raised("403"))
       ELSE LET progress == IF HasJobProgress(req[p].arg)
                            THEN running_jobs[req[p].arg]
                            ELSE local[p].job.progress
            IN  Goes(p, [pc |-> "done", local |-> local[p],
                         result |-> [NoResult EXCEPT
                                       !.success = TRUE,
                                       !.job_id = req[p].arg,
                                       !.status = local[p].job.status,
                                       !.progress = progress,
                                       !.error = local[p].job.error,
                                       !.report_path = local[p].job.report_path]])

\* StatusAnswer, with the progress an answered poll shows kept in seen.
StatusProgress(p) ==
    /\ StatusAnswer(p)
    /\ seen' = IF result'[p].success
               THEN (req[p].arg :> result'[p].progress) @@ seen
               ELSE seen

\* StatusAnswer, with no record of what the polls have shown.
StatusUnrecorded(p) ==
    /\ StatusAnswer(p)
    /\ UNCHANGED seen

\* As DownloadReport, without the check of the job's status.
DownloadReportWhenever(p) ==
    \E u \in Users, job_id \in JobIds :
        /\ Begin(p, [op |-> "download", user_id |-> u, arg |-> job_id])
        /\ UNCHANGED <<dbVars, jobVars, uploadVars, feedback>>
        /\ IF job_id \notin DOMAIN jobs
           THEN Goes(p, Raised("404"))
           ELSE IF jobs[job_id].user_id # u
                THEN Goes(p, Raised("403"))
                ELSE Goes(p, [pc |-> "done", local |-> NoLocal,
                              result |-> [NoResult EXCEPT
                                            !.success = TRUE,
                                            !.job_id = job_id,
                                            !.report_path =
                                               jobs[job_id].report_path]])

\* download_report (GET /api/download/{job_id}): get_job, then without an
\* await between them the 404, 403 and 400 checks, the 404 for a row without
\* report_path, and the FileResponse of the file at report_path.  The file of
\* a row's report_path was saved before the row got the path, and nothing
\* removes it.
DownloadReport(p) ==
    \E u \in Users, job_id \in JobIds :
        /\ Begin(p, [op |-> "download", user_id |-> u, arg |-> job_id])
        /\ UNCHANGED <<dbVars, jobVars, uploadVars, feedback>>
        /\ IF job_id \notin DOMAIN jobs
           THEN Goes(p, Raised("404"))
           ELSE IF jobs[job_id].user_id # u
                THEN Goes(p, Raised("403"))
                ELSE IF jobs[job_id].status # "completed"
                     THEN Goes(p, Raised("400"))
                     ELSE IF jobs[job_id].report_path = NULL
                          THEN Goes(p, Raised("404"))
                          ELSE Goes(p, [pc |-> "done", local |-> NoLocal,
                                        result |-> [NoResult EXCEPT
                                                      !.success = TRUE,
                                                      !.job_id = job_id,
                                                      !.report_path =
                                                         jobs[job_id].report_path]])

\* submit_feedback (POST /api/feedback/{job_id}), the SELECT of get_job.
SubmitFeedback(p) ==
    \E u \in Users, job_id \in JobIds :
        /\ Len(feedback) < Len(FeedbackIds)
        /\ Begin(p, [op |-> "feedback", user_id |-> u, arg |-> job_id])
        /\ UNCHANGED <<dbVars, jobVars, uploadVars, feedback>>
        /\ IF job_id \in DOMAIN jobs
           THEN Goes(p, [pc |-> "feedback_insert",
                         local |-> [NoLocal EXCEPT !.job = jobs[job_id]],
                         result |-> NoResult])
           ELSE Goes(p, Raised("404"))

\* submit_feedback once get_job has returned the row: the 403 check, then the
\* INSERT INTO feedback, its commit and the response.
FeedbackInsert(p) ==
    /\ pc[p] = "feedback_insert"
    /\ UNCHANGED <<dbVars, jobVars, uploadVars, req>>
    /\ IF local[p].job.user_id # req[p].user_id
       THEN /\ Goes(p, Raised("403"))
            /\ UNCHANGED feedback
       ELSE /\ Len(feedback) < Len(FeedbackIds)
            /\ LET feedback_id == FeedbackIds[Len(feedback) + 1]
               IN  /\ feedback' = Append(feedback,
                                         [id |-> feedback_id,
                                          job_id |-> req[p].arg])
                   /\ Goes(p, [pc |-> "done", local |-> NoLocal,
                               result |-> [NoResult EXCEPT
                                             !.success = TRUE,
                                             !.feedback_id = feedback_id]])

\* Upload intake.

\* upload_files (POST /api/upload) up to the loop of save_uploaded_files: 400
\* when there is no file, else a new upload id and its directory (mkdir).
UploadFiles(p) ==
    \E u \in Users, files \in Requests :
        /\ Cardinality(DOMAIN upload_dir) <= Len(NewUploadIds)
        /\ Begin(p, [op |-> "upload", user_id |-> u, arg |-> ""])
        /\ UNCHANGED <<dbVars, jobVars, feedback, uploads>>
        /\ IF files = <<>>
           THEN /\ Goes(p, Raised("400"))
                /\ UNCHANGED upload_dir
           ELSE LET upload_id == NewUploadIds[Cardinality(DOMAIN upload_dir)]
                IN  /\ upload_dir' = (upload_id :> {}) @@ upload_dir
                    /\ Goes(p, [pc |-> "upload_save",
                                local |-> [NoLocal EXCEPT !.files = files,
                                                          !.upload_id = upload_id],
                                result |-> NoResult])

\* As UploadSave, with a per-file limit that a file must stay below.
UploadSaveBelowLimit(p) ==
    /\ pc[p] = "upload_save"
    /\ UNCHANGED <<dbVars, jobVars, feedback, uploads, req>>
    /\ LET i == Len(local[p].file_list) + 1
           file == UploadFile(local[p].files, i)
           total_size == local[p].total_size + file.size
       IN  IF \/ file.type \notin allowed_extensions
              \/ file.size >= MaxFileBytes
              \/ total_size > MaxUploadBytes
           THEN /\ Goes(p, Raised("400"))
                /\ UNCHANGED upload_dir
           ELSE /\ upload_dir' = [upload_dir EXCEPT ![local[p].upload_id] =
                                                      @ \cup {file}]
                /\ Goes(p, [pc |-> IF i = Len(local[p].files)
                                   THEN "upload_create" ELSE "upload_save",
                            local |-> [local[p] EXCEPT
                                         !.file_list = Append(@, Descriptor(file)),
                                         !.total_size = total_size],
                            result |-> NoResult])

\* save_uploaded_files, one turn of the loop: the extension check, the read,
\* the two size checks, each raising 400 and leaving the function at once,
\* then the file written into the directory and its entry in file_list.
UploadSave(p) ==
    /\ pc[p] = "upload_save"
    /\ UNCHANGED <<dbVars, jobVars, feedback, uploads, req>>
    /\ LET i == Len(local[p].file_list) + 1
           file == UploadFile(local[p].files, i)
           total_size == local[p].total_size + file.size
       IN  IF \/ file.type \notin allowed_extensions
              \/ file.size > MaxFileBytes
              \/ total_size > MaxUploadBytes
           THEN /\ Goes(p, Raised("400"))
                /\ UNCHANGED upload_dir
           ELSE /\ upload_dir' = [upload_dir EXCEPT ![local[p].upload_id] =
                                                      @ \cup {file}]
                /\ Goes(p, [pc |-> IF i = Len(local[p].files)
                                   THEN "upload_create" ELSE "upload_save",
                            local |-> [local[p] EXCEPT
                                         !.file_list = Append(@, Descriptor(file)),
                                         !.total_size = total_size],
                            result |-> NoResult])

\* upload_files after save_uploaded_files has returned: create_upload and the
\* UploadResponse.
UploadCreate(p) ==
    /\ pc[p] = "upload_create"
    /\ uploads' = (local[p].upload_id :>
                      [user_id |-> req[p].user_id, files |-> local[p].file_list])
                  @@ uploads
    /\ Goes(p, [pc |-> "done", local |-> NoLocal,
                result |-> [NoResult EXCEPT !.success = TRUE,
                                            !.upload_id = local[p].upload_id,
                                            !.files = local[p].file_list]])
    /\ UNCHANGED <<dbVars, jobVars, feedback, upload_dir, req>>

\* The caller has its answer; the request slot is free again.
Return(p) ==
    /\ pc[p] = "done"
    /\ req' = [req EXCEPT ![p] = NoReq]
    /\ pc' = [pc EXCEPT ![p] = "idle"]
    /\ local' = [local EXCEPT ![p] = NoLocal]
    /\ result' = [result EXCEPT ![p] = NoResult]
    /\ UNCHANGED <<dbVars, jobVars, uploadVars, feedback>>

----------------------------------------------------------------------------
(* The token ledger under concurrent requests *)

Next ==
    /\ UNCHANGED <<jobVars, uploadVars, feedback>>
    /\ \E p \in Procs :
           \/ Consume(p)
           \/ TokensInsert(p)
           \/ ConsumeAdd(p)
           \/ PurchaseTokens(p)
           \/ PurchaseGet(p)
           \/ GetUserBalance(p)
           \/ BalanceTransactions(p)
           \/ CheckReferralEligibility(p)
           \/ Return(p)

Spec == Init /\ [][Next]_vars

(* The referral engine under concurrent requests; get_user_balance is what   *)
(* creates the token accounts the rewards are credited to.                   *)

ReferralNext ==
    /\ UNCHANGED <<jobVars, uploadVars, feedback>>
    /\ \E p \in Procs :
           \/ CreateReferral(p)
           \/ RecordSignup(p)
           \/ Award(p)
           \/ AwardAdd(p)
           \/ AwardMark(p)
           \/ ValidateReferralCode(p)
           \/ ValidateReferrer(p)
           \/ GetUserBalance(p)
           \/ TokensInsert(p)
           \/ BalanceTransactions(p)
           \/ Return(p)

ReferralSpec == Init /\ [][ReferralNext]_vars

(* Referral codes asked for and invitations sent by concurrent requests *)

CodeNext ==
    /\ UNCHANGED <<jobVars, uploadVars, feedback>>
    /\ \E p \in Procs :
           \/ GetOrCreateReferralCode(p)
           \/ CodeCheck(p)
           \/ CodeCreate(p)
           \/ SendInvitation(p)
           \/ InviteCreate(p)
           \/ InviteEmail(p)
           \/ Return(p)

CodeSpec == Init /\ [][CodeNext]_vars

(* Report jobs: submissions, and the background tasks of the jobs running   *)
(* between them.                                                            *)

JobNext ==
    \/ \E p \in Clients :
          \/ GenerateReport(p)
          \/ GenerateCreate(p)
          \/ RegenerateReport(p)
          \/ RegenerateCreate(p)
          \/ RegenerateTask(p)
          \/ Return(p)
    \/ \E j \in JobIds :
          \/ TaskStart(j)
          \/ TaskStage(j)
          \/ WriteCompleted(j)
          \/ WriteFailed(j)
          \/ TaskFinally(j)

JobSpec == Init /\ [][JobNext]_vars

(* Report jobs with a client that polls their status *)

PollNext ==
    \/ \E p \in Clients :
          \/ GenerateReport(p)
          \/ GenerateCreate(p)
          \/ RegenerateReport(p)
          \/ RegenerateCreate(p)
          \/ RegenerateTask(p)
          \/ GetJobStatus(p)
          \/ StatusProgress(p)
          \/ Return(p)
    \/ \E j \in JobIds :
          \/ TaskStart(j)
          \/ TaskStage(j)
          \/ WriteCompleted(j)
          \/ WriteFailed(j)
          \/ TaskFinally(j)

PollSpec == Init /\ [][PollNext]_vars

(* Report jobs on an upload whose directory holds any of Directories *)

GenerationInit ==
    /\ user_tokens = [u \in {} |-> ZeroRow]
    /\ token_transactions = <<>>
    /\ referrals = <<>>
    /\ pc = [p \in Procs |-> "idle"]
    /\ req = [p \in Procs |-> NoReq]
    /\ local = [p \in Procs |-> NoLocal]
    /\ result = [p \in Procs |-> NoResult]
    /\ jobs = [j \in {} |-> NoJob]
    /\ running_jobs = [j \in {} |-> 0]
    /\ task = [j \in {} |-> NoTask]
    /\ seen = [j \in {} |-> 0]
    /\ uploads = [id \in {"up1"} |->
                    [user_id |-> "alice", files |-> <<Descriptor(Notes)>>]]
    /\ feedback = <<>>
    /\ \E files \in Directories : upload_dir = [id \in {"up1"} |-> files]

GenerationSpec == GenerationInit /\ [][JobNext]_vars

(* Report jobs with a client that asks for their status, downloads their   *)
(* reports and sends feedback on them.  The client has two jobs made, one   *)
(* after the other or one from the other, and asks about any job id.        *)

AccessJobIds == {JobId(1), JobId(2)}

AccessNext ==
    \/ \E p \in Clients :
          \/ DOMAIN jobs # AccessJobIds /\ GenerateReport(p)
          \/ GenerateCreate(p)
          \/ DOMAIN jobs # AccessJobIds /\ RegenerateReport(p)
          \/ RegenerateCreate(p)
          \/ RegenerateTask(p)
          \/ GetJobStatus(p)
          \/ StatusUnrecorded(p)
          \/ DownloadReport(p)
          \/ SubmitFeedback(p)
          \/ FeedbackInsert(p)
          \/ Return(p)
    \/ \E j \in JobIds :
          \/ TaskStart(j)
          \/ TaskStage(j)
          \/ WriteCompleted(j)
          \/ WriteFailed(j)
          \/ TaskFinally(j)

AccessSpec == Init /\ [][AccessNext]_vars

(* Upload intake *)

UploadNext ==
    \E p \in Clients :
        \/ UploadFiles(p)
        \/ UploadSave(p)
        \/ UploadCreate(p)
        \/ Return(p)

UploadSpec == Init /\ [][UploadNext]_vars

(* Report jobs under a fair event loop: a handler that has passed its     *)
(* checks runs on to its return, and a task that has been queued is run     *)
(* on, each of its calls returning or raising.  Whether and when a client   *)
(* sends a request or collects its response is left open.                   *)

FairJobSpec ==
    /\ JobSpec
    /\ \A p \in Clients :
          WF_vars(GenerateCreate(p) \/ RegenerateCreate(p) \/ RegenerateTask(p))
    /\ \A j \in JobIds :
          WF_vars(TaskStart(j) \/ TaskStage(j) \/ WriteCompleted(j)
                    \/ WriteFailed(j) \/ TaskFinally(j))

----------------------------------------------------------------------------
(* Properties of the token ledger, checked under Spec *)

\* A request p starts a call of operation op in this step.
Calls(p, op) == pc[p] = "idle" /\ pc'[p] # "idle" /\ req'[p].op = op

\* A request p returns from a call of operation op in this step.
Returns(p, op) == pc[p] # "done" /\ pc'[p] = "done" /\ req'[p].op = op

ConsumptionOf(u, amount) == [user_id |-> u, type |-> "consumption", amount |-> -amount]
PurchaseOf(u, amount) == [user_id |-> u, type |-> "purchase", amount |-> amount]

\* C1: in every reachable state no user's balance is negative, whatever the
\* interleaving of the consume and purchase calls of concurrent requests.
BalanceNeverNegative == \A u \in Users : Balance(u) >= 0

\* C2: every consume call that returns success deducts its amount at a point
\* where the balance covers it, recording exactly one consumption; every call
\* that returns failure does so on a balance below its amount and records none.
ConsumeCallsSerialize ==
    [][\A p \in Procs, u \in Users, t \in ProjectTypes :
         (req'[p].user_id = u /\ req'[p].arg = t) =>
             /\ (Returns(p, "consume") /\ result'[p].success) =>
                    /\ TokensNeeded(t) <= Balance(u)
                    /\ Balance(u)' = Balance(u) - TokensNeeded(t)
                    /\ token_transactions' =
                           Append(token_transactions, ConsumptionOf(u, TokensNeeded(t)))
             /\ (Returns(p, "consume") /\ ~result'[p].success
                                       /\ result'[p].raised = "") =>
                    /\ Balance(u) < TokensNeeded(t)
                    /\ token_transactions' = token_transactions
      ]_vars

\* The step in which a consume call of p compares the balance with the amount:
\* the SELECT that finds the account row, or the INSERT of the zero row.
ConsumeChecks(p) ==
    \/ Calls(p, "consume") /\ HasAccount(req'[p].user_id)
    \/ /\ pc[p] = "tokens_insert" /\ pc'[p] # "tokens_insert"
       /\ req[p].op = "consume" /\ ~HasAccount(req[p].user_id)

BalanceIsLedgerSum == \A u \in Users : Balance(u) = LedgerSum(u)

\* C5: a purchase of a valid package raises the user's balance and
\* total_purchased by the package's token count and puts the purchase at the
\* head of the user's recent transactions (also for a user without an account
\* row), and the call returns the balance the ledger then holds.
PurchaseCreditsPackage ==
    [][\A p \in Procs, u \in Users, name \in DOMAIN TOKEN_PACKAGES :
         (req'[p].user_id = u /\ req'[p].arg = name) =>
             /\ Calls(p, "purchase") =>
                    /\ Balance(u)' = Balance(u) + TOKEN_PACKAGES[name].tokens
                    /\ TotalPurchased(u)' =
                           TotalPurchased(u) + TOKEN_PACKAGES[name].tokens
                    /\ get_token_transactions(u, 10)' # <<>>
                    /\ Head(get_token_transactions(u, 10)') =
                           PurchaseOf(u, TOKEN_PACKAGES[name].tokens)
             /\ (Returns(p, "purchase") /\ result'[p].raised = "") =>
                    /\ result'[p].success
                    /\ result'[p].balance = Balance(u)'
      ]_vars

\* C6: a purchase call with a package name outside TOKEN_PACKAGES ends at once
\* with ValueError and leaves every table as it was.
InvalidPackageRejected ==
    [][\A p \in Procs :
         (Calls(p, "purchase") /\ req'[p].arg \notin DOMAIN TOKEN_PACKAGES) =>
             /\ pc'[p] = "done"
             /\ result'[p].raised = "ValueError"
             /\ ~result'[p].success
             /\ UNCHANGED dbVars
      ]_vars

\* C6 witness: a purchase of an unknown package has been refused while the
\* ledger already holds transactions.
InvalidPackageSeen ==
    \E p \in Procs :
        /\ pc[p] = "done" /\ req[p].op = "purchase"
        /\ req[p].arg \notin DOMAIN TOKEN_PACKAGES
        /\ result[p].raised = "ValueError"
        /\ token_transactions # <<>>

----------------------------------------------------------------------------
(* Properties of the referral engine, checked under ReferralSpec *)

BonusesOf(u) ==
    {i \in 1..Len(token_transactions) :
        /\ token_transactions[i].user_id = u
        /\ token_transactions[i].type = "referral_bonus"}

ReferralsOf(u) ==
    {i \in 1..Len(referrals) : referrals[i].referrer_user_id = u}

\* C7: however many award calls run on a referral, and however they
\* interleave, the referrer gets one referral_bonus transaction of the fixed
\* reward per referral at most, and tokens_awarded, once 25, stays 25.
AwardedOncePerReferral ==
    /\ [](\A u \in Users :
            /\ Cardinality(BonusesOf(u)) <= Cardinality(ReferralsOf(u))
            /\ \A i \in BonusesOf(u) :
                   token_transactions[i].amount = REFERRAL_REWARD_TOKENS)
    /\ [][\A i \in 1..Len(referrals) :
            referrals[i].tokens_awarded = REFERRAL_REWARD_TOKENS =>
                referrals'[i].tokens_awarded = REFERRAL_REWARD_TOKENS]_vars

\* C8: the add_tokens of a successful award raises the referrer's balance, as
\* get_user_tokens reports it, by exactly 25 (also for a referrer without an
\* account row), and the call ends with the referral's tokens_awarded at 25.
AwardCreditsReferrer ==
    [][\A p \in Procs, u \in Users, code \in Codes :
         (local[p].referrer_user_id = u /\ req[p].arg = code) =>
             /\ (pc[p] = "award_add" /\ pc'[p] = "award_mark") =>
                    Balance(u)' = Balance(u) + REFERRAL_REWARD_TOKENS
             /\ (pc[p] = "award_mark" /\ pc'[p] = "done") =>
                    /\ result'[p].success
                    /\ get_referral_by_code(code)'.tokens_awarded =
                           REFERRAL_REWARD_TOKENS
      ]_vars

\* C9: an award call for a code that has no referral, whose referral has no
\* referee user yet, or whose tokens_awarded is not 0, returns failure at once,
\* without raising, and leaves every table as it was.
AwardRefusedWithoutEffect ==
    [][\A p \in Procs :
         (/\ Calls(p, "award")
          /\ \/ \A i \in 1..Len(referrals) :
                    referrals[i].referral_code # req'[p].arg
             \/ \E i \in 1..Len(referrals) :
                    /\ referrals[i].referral_code = req'[p].arg
                    /\ \/ referrals[i].referee_user_id = NULL
                       \/ referrals[i].tokens_awarded # 0) =>
             /\ pc'[p] = "done"
             /\ ~result'[p].success
             /\ result'[p].raised = ""
             /\ UNCHANGED dbVars
      ]_vars

\* C9 witness: an award call has been refused on a referral that was already
\* awarded.
AwardRefusedSeen ==
    \E p \in Procs :
        /\ pc[p] = "done" /\ req[p].op = "award"
        /\ ~result[p].success /\ result[p].raised = ""
        /\ HasReferral(req[p].arg)
        /\ get_referral_by_code(req[p].arg).tokens_awarded = 25
        /\ token_transactions # <<>>

\* C10: once a referral's referee_user_id is set, no step changes it.
SignupLinksOnce ==
    [][\A i \in 1..Len(referrals) :
         referrals[i].referee_user_id # NULL =>
             referrals'[i].referee_user_id = referrals[i].referee_user_id
      ]_vars

----------------------------------------------------------------------------
(* Properties of code validation and eligibility *)

\* C11: a validate_referral_code call changes no table, and it answers
\* valid, with reward_tokens 25 and discount_percent 15, exactly when the code
\* has a referral, whatever that referral's signup and award fields hold.
ValidateReadsOnly ==
    [][\A p \in Procs :
         /\ (req'[p].op = "validate" /\ pc'[p] # pc[p]) => UNCHANGED dbVars
         /\ Returns(p, "validate") =>
               /\ result'[p].valid <=> HasReferral(req'[p].arg)
               /\ result'[p].valid =>
                     /\ result'[p].reward_tokens = 25
                     /\ result'[p].discount_percent = 15
                     /\ result'[p].referral_code = req'[p].arg]_vars

\* A code is answered valid after its signup is recorded and its reward paid.
ValidatedAfterAward ==
    \E p \in Procs :
        /\ pc[p] = "done"
        /\ req[p].op = "validate"
        /\ result[p].valid
        /\ get_referral_by_code(req[p].arg).referee_user_id # NULL
        /\ get_referral_by_code(req[p].arg).tokens_awarded = REFERRAL_REWARD_TOKENS

\* C12: check_referral_eligibility answers true exactly for a user who has
\* completed a purchase.
EligibleIffPurchased ==
    [][\A p \in Procs, u \in Users :
         (Returns(p, "eligibility") /\ req'[p].user_id = u
            /\ result'[p].raised = "")
         => (result'[p].success <=>
               \E i \in 1..Len(token_transactions) :
                   /\ token_transactions[i].user_id = u
                   /\ token_transactions[i].type = "purchase")]_vars

----------------------------------------------------------------------------
(* Properties of referral codes, checked under CodeSpec *)

\* C13, as stated: a get_or_create_referral_code call whose every attempt
\* collided still creates the referral record and returns a code.
FallbackCreatesRecord ==
    [][\A p \in Procs :
         (pc[p] = "code_create" /\ pc'[p] = "done"
            /\ local[p].attempt = MAX_ATTEMPTS)
         => /\ result'[p].raised = ""
            /\ result'[p].referral_code # ""
            /\ Len(referrals') = Len(referrals) + 1]_vars

\* C13, amended: a get_or_create_referral_code call returns the referrer's
\* existing code and creates nothing when there is one; otherwise it checks at
\* most 10 generated codes and then inserts the code it is left with: a code
\* no record holds is recorded for the referrer and returned, a code some
\* record holds is rejected by the table and the call raises IntegrityError,
\* creating nothing.
GetOrCreateCodeContract ==
    [][\A p \in Procs, u \in Referrers :
         /\ (Calls(p, "get_or_create") /\ req'[p].user_id = u /\ HasCode(u))
            => /\ pc'[p] = "done"
               /\ result'[p].referral_code = get_user_referral_code(u).referral_code
               /\ UNCHANGED referrals
         /\ req'[p].op = "get_or_create" => local'[p].attempt <= MAX_ATTEMPTS
         /\ (pc[p] = "code_check" /\ pc'[p] = "code_create")
            => \/ ~HasReferral(local'[p].referral_code)
               \/ local'[p].attempt = MAX_ATTEMPTS
         /\ (pc[p] = "code_create" /\ pc'[p] = "done" /\ req[p].user_id = u)
            => IF HasReferral(local[p].referral_code)
               THEN /\ result'[p].raised = "IntegrityError"
                    /\ UNCHANGED referrals
               ELSE /\ result'[p].raised = ""
                    /\ result'[p].referral_code = local[p].referral_code
                    /\ referrals' =
                         Append(referrals, NewReferral(u, local[p].referral_code))]_vars

\* A call has used up its 10 attempts and its insert was rejected.
FallbackRejectedSeen ==
    \E p \in Procs :
        /\ pc[p] = "done"
        /\ req[p].op = "get_or_create"
        /\ local[p].attempt = MAX_ATTEMPTS
        /\ result[p].raised = "IntegrityError"

\* C14: no two referral records hold the same referral code.
ReferralCodesUnique ==
    \A i, j \in 1..Len(referrals) :
        referrals[i].referral_code = referrals[j].referral_code => i = j

\* Two referrals are recorded and an insert of a code already held has been
\* turned down.
DuplicateCodeRejectedSeen ==
    /\ Len(referrals) = 2
    /\ \E p \in Procs :
          /\ pc[p] = "done"
          /\ req[p].op = "get_or_create"
          /\ result[p].raised = "IntegrityError"
          /\ HasReferral(local[p].referral_code)

\* C15: a send_invitation call creates a referral record only for a referrer
\* that has none, so that a referrer never has more than one.
InvitationCreatesOnlyFirst ==
    [][\A p \in Procs, u \in Referrers :
         (pc[p] = "invite_create" /\ pc'[p] = "invite_email"
            /\ req[p].user_id = u)
         => ~HasCode(u)]_vars

----------------------------------------------------------------------------
(* Properties of report jobs, checked under JobSpec and PollSpec *)

Terminal == {"completed", "failed"}

\* C16: once a job's status is completed or failed, no step changes its
\* status, error, report_path or completed_at.
TerminalStatesFinal ==
    [][\A j \in JobIds :
         (j \in DOMAIN jobs /\ jobs[j].status \in Terminal)
         => /\ jobs'[j].status = jobs[j].status
            /\ jobs'[j].error = jobs[j].error
            /\ jobs'[j].report_path = jobs[j].report_path
            /\ jobs'[j].completed_at = jobs[j].completed_at]_vars

\* One job has completed and one has failed, their tasks have ended, and a
\* request has been answered since.
TerminalJobsOutlived ==
    /\ \E j \in DOMAIN jobs : jobs[j].status = "completed" /\ task[j].pc = "ended"
    /\ \E j \in DOMAIN jobs : jobs[j].status = "failed" /\ task[j].pc = "ended"
    /\ \E p \in Clients : pc[p] = "done"

\* C17: a job's status becomes completed only from processing, the status its
\* task's first progress update gave it.
CompletedFromProcessing ==
    [][\A j \in JobIds :
         (j \in DOMAIN jobs /\ jobs[j].status # "completed"
            /\ jobs'[j].status = "completed")
         => jobs[j].status = "processing"]_vars

\* C18: a status poll of a job never shows a progress below the one the
\* poll answered before it showed.
PolledProgressNeverFalls ==
    [][\A p \in Clients, j \in JobIds :
         (Returns(p, "status") /\ req'[p].arg = j /\ result'[p].raised = ""
            /\ j \in DOMAIN seen)
         => result'[p].progress >= seen[j]]_vars

\* C19: completed_at is set exactly in the rows whose status is completed or
\* failed.
CompletedAtIffTerminal ==
    \A j \in DOMAIN jobs :
        jobs[j].completed_at # NULL <=> jobs[j].status \in Terminal

\* A completed job, a failed job and a job not yet finished, side by side.
TerminalAndRunningSeen ==
    /\ \E j \in DOMAIN jobs : jobs[j].status = "completed"
    /\ \E j \in DOMAIN jobs : jobs[j].status = "pending" /\ j \in DOMAIN running_jobs

\* C20: error is non-null exactly in the rows whose status is failed.
ErrorIffFailed ==
    \A j \in DOMAIN jobs :
        jobs[j].error # NULL <=> jobs[j].status = "failed"

\* A job has failed on an exception whose text is empty, and another has
\* completed after its task ran through.
FailedWithEmptyTextSeen ==
    /\ \E j \in DOMAIN jobs : jobs[j].status = "failed" /\ jobs[j].error = ""
    /\ \E j \in DOMAIN jobs : jobs[j].status = "completed"

\* C21: report_path is non-null exactly in the rows whose status is
\* completed, also after a completed write that raised and a failed write
\* that followed it.
ReportPathIffCompleted ==
    \A j \in DOMAIN jobs :
        jobs[j].report_path # NULL <=> jobs[j].status = "completed"

\* A job has failed on the exception its completed write raised, and another
\* has completed.
FailedOnCompletedWriteSeen ==
    /\ \E j \in DOMAIN jobs :
          /\ jobs[j].status = "failed"
          /\ jobs[j].error = StoreError
          /\ jobs[j].progress = Stages[Len(Stages)]
    /\ \E j \in DOMAIN jobs : jobs[j].status = "completed"

\* C22: every committed state shows a completed job with progress 1.0 and a
\* report_path, and a completed or failed job with its completed_at.
CompletionIsOneWrite ==
    \A j \in DOMAIN jobs :
        /\ jobs[j].status = "completed"
           => /\ jobs[j].progress = Stages[Len(Stages)]
              /\ jobs[j].report_path # NULL
        /\ jobs[j].status \in Terminal => jobs[j].completed_at # NULL

\* A job has completed while the task that wrote it has not yet left
\* _running_jobs.
CompletedBeforeFinallySeen ==
    \E j \in DOMAIN jobs :
        /\ jobs[j].status = "completed"
        /\ task[j].pc = "finally"
        /\ j \in DOMAIN running_jobs

\* C25: a generate_report call for an upload that is missing or another
\* user's is answered 404 or 403 at once and changes nothing; a job row is
\* created by a generate_report call only for the upload's owner, with the
\* caller as its user, status pending and a task queued for it.
SubmitChecksOwner ==
    [][\A p \in Clients, u \in Users, id \in UploadIds :
         /\ (Calls(p, "generate") /\ req'[p].user_id = u /\ req'[p].arg = id)
            => /\ UNCHANGED <<jobVars, uploadVars, feedback, dbVars>>
               /\ IF id \notin DOMAIN uploads
                  THEN pc'[p] = "done" /\ result'[p].raised = "404"
                  ELSE IF uploads[id].user_id # u
                       THEN pc'[p] = "done" /\ result'[p].raised = "403"
                       ELSE pc'[p] = "generate_create"
         /\ (req[p].op = "generate" /\ req[p].user_id = u /\ req[p].arg = id
               /\ DOMAIN jobs' # DOMAIN jobs)
            => /\ id \in DOMAIN uploads
               /\ uploads[id].user_id = u
               /\ \E j \in DOMAIN jobs' \ DOMAIN jobs :
                     /\ DOMAIN jobs' = DOMAIN jobs \cup {j}
                     /\ jobs'[j] = [NoJob EXCEPT !.user_id = u, !.upload_id = id,
                                                 !.status = "pending"]
                     /\ result'[p].job_id = j
                     /\ j \in DOMAIN task' \ DOMAIN task]_vars

\* bob has been refused alice's upload, after alice got a job for it.
SubmitRefusedSeen ==
    /\ \E j \in DOMAIN jobs : jobs[j].user_id = "alice"
    /\ \E p \in Clients :
          /\ pc[p] = "done"
          /\ req[p] = [op |-> "generate", user_id |-> "bob", arg |-> "up1"]
          /\ result[p].raised = "403"

\* C26: a regenerate_report call by the job's owner adds one row under a new
\* id, pending and with the old job's upload_id, and queues a task for the new
\* id alone; the call leaves every row there was as it is, and so does every
\* step of the task of another job.
RegenerateLeavesOldJob ==
    [][\A p \in Clients, old \in JobIds :
         /\ (req[p].op = "regenerate" /\ req[p].arg = old
               /\ pc'[p] # pc[p])
            => /\ \A j \in DOMAIN jobs : jobs'[j] = jobs[j]
               /\ pc[p] = "regenerate_create" /\ pc'[p] = "regenerate_task"
                  => /\ jobs[old].user_id = req[p].user_id
                     /\ \E new \in JobIds \ DOMAIN jobs :
                           /\ DOMAIN jobs' = DOMAIN jobs \cup {new}
                           /\ jobs'[new] = [NoJob EXCEPT
                                              !.user_id = req[p].user_id,
                                              !.upload_id = jobs[old].upload_id,
                                              !.status = "pending"]
                           /\ result'[p].job_id = new
               /\ pc[p] = "regenerate_task"
                  => /\ DOMAIN task' = DOMAIN task \cup {result[p].job_id}
                     /\ result[p].job_id # old
                     /\ \A j \in DOMAIN task : task'[j] = task[j]
         /\ \A k \in DOMAIN task :
               task'[k] # task[k]
               => \A j \in DOMAIN jobs \ {k} : jobs'[j] = jobs[j]]_vars

\* A job has completed, a regenerate_report call for it has been answered,
\* and the job it created has run to its end and failed.
RegeneratedJobRanSeen ==
    \E p \in Clients :
        /\ pc[p] = "done"
        /\ req[p].op = "regenerate"
        /\ result[p].success
        /\ jobs[req[p].arg].status = "completed"
        /\ jobs[result[p].job_id].status = "failed"
        /\ task[result[p].job_id].pc = "ended"

\* C30: whenever a job has an entry in _running_jobs, the progress of that
\* entry is at least the progress of the job's row.
RunningProgressAtLeastStored ==
    \A j \in DOMAIN running_jobs : running_jobs[j] >= jobs[j].progress

\* The failed write of a job has committed the generator's progress, past
\* zero, and the job's entry is still in _running_jobs.
StoredProgressCaughtUpSeen ==
    \E j \in DOMAIN running_jobs :
        /\ task[j].pc = "finally"
        /\ jobs[j].status = "failed"
        /\ jobs[j].progress = running_jobs[j]
        /\ jobs[j].progress > Stages[1]

\* C27: under a fair event loop every job that has a row, created by
\* generate_report or by regenerate_report, eventually has the status
\* completed or failed in its row.
EveryJobTerminates ==
    \A j \in JobIds :
        (j \in DOMAIN jobs)
        ~> (j \in DOMAIN jobs /\ jobs[j].status \in Terminal)

----------------------------------------------------------------------------
(* Properties of the stages of a job, checked under GenerationSpec *)

\* The files of a directory that _categorize_files takes as data or documents.
ValidFiles(files) ==
    {f \in files : f.type \in {".csv", ".xlsx", ".xls", ".docx", ".pdf", ".txt"}}

\* C23: a job whose task has ended after a stage raised is failed, with the
\* exception's text as error and the fraction reported last as progress, and
\* a job on an upload without valid files is never completed.
StageFailureEndsFailed ==
    \A j \in DOMAIN task :
        /\ (task[j].pc = "ended" /\ task[j].error \in ErrorTexts)
           => /\ jobs[j].status = "failed"
              /\ jobs[j].error = task[j].error
        /\ jobs[j].status = "completed"
           => ValidFiles(upload_dir[jobs[j].upload_id]) # {}

\* C24: a job whose upload holds a single document that cannot be read does
\* not fail in the extraction stage.
UnreadableDocumentSkipped ==
    \A j \in DOMAIN task :
        (task[j].pc = "write_failed" /\ running_jobs[j] = Stages[2])
        => Cardinality({f \in DocFiles(upload_dir[jobs[j].upload_id]) :
                           ~f.readable}) # 1

----------------------------------------------------------------------------
(* Properties of upload intake, checked under UploadSpec *)

\* The upload request p is rejected in this step.
UploadRejected(p) ==
    req[p].op = "upload" /\ pc[p] = "upload_save" /\ pc'[p] = "done"

\* C28: when a file of an upload request has an extension that is not
\* allowed, is larger than the per-file limit, or takes the request past the
\* total limit, the request is rejected with 400, its directory holds none of
\* its files, those saved before the rejected one included, and there is no
\* upload record for it.
UploadAllOrNothing ==
    [][\A p \in Clients :
         UploadRejected(p)
         => /\ result'[p].raised = "400"
            /\ upload_dir'[local[p].upload_id] = {}
            /\ local[p].upload_id \notin DOMAIN uploads']_vars

\* C29: a request with one file of exactly the per-file limit is accepted:
\* the file is in the request's directory and the upload's record and the
\* response carry its descriptor, with that size; a request with one file of
\* one byte more is rejected with 400, with nothing in its directory and no
\* record.
PerFileLimitInclusive ==
    [][\A p \in Clients :
         (req[p].op = "upload" /\ pc'[p] # pc[p] /\ Len(local[p].files) = 1)
         => LET file == UploadFile(local[p].files, 1)
                upload_id == local[p].upload_id
            IN  /\ (pc[p] = "upload_save" /\ file.type \in allowed_extensions
                      /\ file.size = MaxFileBytes)
                   => /\ pc'[p] = "upload_create"
                      /\ upload_dir'[upload_id] = {file}
                      /\ local'[p].file_list = <<Descriptor(file)>>
                /\ (pc[p] = "upload_create" /\ file.size = MaxFileBytes)
                   => /\ pc'[p] = "done"
                      /\ result'[p].success
                      /\ result'[p].upload_id = upload_id
                      /\ result'[p].files = <<Descriptor(file)>>
                      /\ result'[p].files[1].size = MaxFileBytes
                      /\ uploads'[upload_id].files = <<Descriptor(file)>>
                      /\ upload_dir'[upload_id] = {file}
                /\ (pc[p] = "upload_save" /\ file.size = MaxFileBytes + 1)
                   => /\ pc'[p] = "done"
                      /\ result'[p].raised = "400"
                      /\ upload_dir'[upload_id] = {}
                      /\ upload_id \notin DOMAIN uploads']_vars

\* An upload of one file of exactly the per-file limit has been answered: the
\* file is in its directory and in its record.
FileAtLimitAcceptedSeen ==
    \E p \in Clients :
        /\ pc[p] = "done"
        /\ req[p].op = "upload"
        /\ result[p].success
        /\ Len(result[p].files) = 1
        /\ result[p].files[1].size = MaxFileBytes
        /\ uploads[result[p].upload_id].files = result[p].files
        /\ \E f \in upload_dir[result[p].upload_id] : f.size = MaxFileBytes

----------------------------------------------------------------------------
(* Properties of the running table and of the order of a job's writes,     *)
(* checked under JobSpec                                                    *)

\* C31: a job's entry goes into _running_jobs when its task starts and is out
\* of it when the task has ended, on every path; and in the step that removes
\* the entry the job's row is already completed or failed, so that a poller
\* that finds no entry reads a terminal status from the store.
EntryRemovedAtTerminal ==
    [][\A j \in DOMAIN task :
         /\ (task[j].pc = "queued" /\ task'[j].pc = "generating")
            => j \in DOMAIN running_jobs'
         /\ task'[j].pc = "ended" => ~HasJobProgress(j)'
         /\ (HasJobProgress(j) /\ ~HasJobProgress(j)')
            => jobs'[j].status \in Terminal]_vars

\* C32: a job's row gets the status completed, and a report_path, only in the
\* write that follows the return of generate_simple, after doc.save has
\* returned and 1.0 has been reported; a job whose stage has raised, the
\* formatting and saving stage included, is never completed and never has a
\* report_path.
CompletedAfterSave ==
    [][\A j \in DOMAIN jobs' :
         /\ ((jobs'[j].status = "completed" \/ jobs'[j].report_path # NULL)
               /\ (j \notin DOMAIN jobs \/ jobs[j] # jobs'[j]))
            => /\ j \in DOMAIN task
               /\ task[j].pc = "write_completed"
               /\ task[j].error = NULL
               /\ running_jobs[j] = Stages[Len(Stages)]
         /\ (j \in DOMAIN task' /\ task'[j].error \in ErrorTexts)
            => /\ jobs'[j].status # "completed"
               /\ jobs'[j].report_path = NULL]_vars

\* The formatting and saving stage of a job has raised, and its task has
\* ended with the job failed at 0.8 and without a report_path.
SaveFailureSeen ==
    \E j \in DOMAIN task :
        /\ task[j].pc = "ended"
        /\ task[j].error \in ErrorTexts
        /\ jobs[j].status = "failed"
        /\ jobs[j].progress = Stages[Len(Stages) - 1]
        /\ jobs[j].report_path = NULL

\* C33: generate_report answers with the job's id once the pending row is
\* committed, with the job's task queued and none of its stages run; and
\* every step of a job's task, every write of its row after the first and
\* every insertion of its entry into _running_jobs finds the row committed.
SubmitBeforeExecution ==
    [][/\ \A p \in Clients :
            (req'[p].op = "generate" /\ pc'[p] = "done" /\ pc[p] # "done"
               /\ result'[p].success)
            => LET job_id == result'[p].job_id
               IN  /\ job_id \in DOMAIN jobs'
                   /\ jobs'[job_id].status = "pending"
                   /\ task'[job_id] = NoTask
                   /\ job_id \notin DOMAIN running_jobs'
       /\ \A j \in JobIds :
            (\/ j \in DOMAIN task /\ task'[j] # task[j]
             \/ j \in DOMAIN running_jobs' \ DOMAIN running_jobs)
            => j \in DOMAIN jobs]_vars

\* generate_report has answered and the answer has not been collected yet,
\* while the job's task has started: its entry is in _running_jobs.
TaskRunsAfterAnswerSeen ==
    \E p \in Clients :
        /\ pc[p] = "done"
        /\ req[p].op = "generate"
        /\ result[p].success
        /\ task[result[p].job_id].pc = "generating"
        /\ result[p].job_id \in DOMAIN running_jobs

\* What the program holds of job j: its row, its entry in _running_jobs and
\* the position of its task.
JobState(j) ==
    <<IF j \in DOMAIN jobs THEN <<jobs[j]>> ELSE <<>>,
      IF j \in DOMAIN running_jobs THEN <<running_jobs[j]>> ELSE <<>>,
      IF j \in DOMAIN task THEN <<task[j]>> ELSE <<>>>>

\* C34: a step of the task of job a, each write of its row and each update of
\* its entry in _running_jobs included, leaves the row, the entry and the task
\* of every other job b as they are.
JobsDoNotInterfere ==
    [][\A a \in DOMAIN task :
         \A b \in JobIds \ {a} :
            (JobState(a)' # JobState(a)) => (JobState(b)' = JobState(b))]_vars

\* Two jobs run at once, each past its first stage, and one of them has had
\* its terminal write while the other's row is still pending.
TwoJobsRunningSeen ==
    \E a \in DOMAIN running_jobs, b \in DOMAIN running_jobs :
        /\ a # b
        /\ jobs[a].status \in Terminal
        /\ jobs[b].status = "pending"
        /\ running_jobs[b] > Stages[1]

----------------------------------------------------------------------------
(* A further property of the token ledger, checked under Spec *)

\* C35: in every committed state each user's total_purchased is the sum of
\* the amounts of the user's transactions of type purchase.
TotalPurchasedIsPurchaseSum ==
    \A u \in Users :
        TotalPurchased(u) = SumAmounts(token_transactions, u, {"purchase"})

----------------------------------------------------------------------------
(* Properties of the ownership of jobs, checked under JobSpec *)

\* C36: every job's upload has a record, and the job's user_id is the
\* user_id of that record, for the jobs of generate_report and for those of
\* regenerate_report alike.
JobOwnerIsUploadOwner ==
    \A j \in DOMAIN jobs :
        /\ jobs[j].upload_id \in DOMAIN uploads
        /\ jobs[j].user_id = uploads[jobs[j].upload_id].user_id

\* A regenerate_report call has been answered with a new job on the upload of
\* the job it was made for.
RegeneratedJobOwnedSeen ==
    \E p \in Clients :
        /\ pc[p] = "done"
        /\ req[p].op = "regenerate"
        /\ result[p].success
        /\ result[p].job_id \in DOMAIN jobs
        /\ result[p].job_id # req[p].arg
        /\ jobs[result[p].job_id].upload_id = jobs[req[p].arg].upload_id

----------------------------------------------------------------------------
(* Properties of the access to a job, checked under AccessSpec *)

AccessOps == {"status", "download", "feedback", "regenerate"}

\* C37: a status, download, feedback or regenerate request for a job of
\* another user changes nothing in any of its steps and ends in 403, its
\* answer holding no status, progress, error or path; such a request is
\* answered only to the job's owner; and a download is answered with the
\* report only when the job's row is completed and has a report_path, being
\* refused with 400 for the owner's job in any other status.
JobsServedToOwnerOnly ==
    [][\A p \in Clients :
         (req'[p].op \in AccessOps /\ pc[p] # "done" /\ pc'[p] # pc[p]
            /\ req'[p].arg \in DOMAIN jobs)
         => LET job == jobs[req'[p].arg]
                answered == pc'[p] = "done" /\ result'[p].success
            IN  /\ job.user_id # req'[p].user_id
                   => /\ UNCHANGED <<dbVars, jobVars, uploadVars, feedback>>
                      /\ pc'[p] = "done"
                         => result'[p] = [NoResult EXCEPT !.raised = "403"]
                /\ answered => job.user_id = req'[p].user_id
                /\ (answered /\ req'[p].op = "download")
                   => /\ job.status = "completed"
                      /\ job.report_path # NULL
                      /\ result'[p].report_path = job.report_path
                /\ (req'[p].op = "download" /\ job.user_id = req'[p].user_id
                      /\ job.status # "completed")
                   => /\ pc'[p] = "done"
                      /\ result'[p] = [NoResult EXCEPT !.raised = "400"]
                      /\ UNCHANGED <<dbVars, jobVars, uploadVars, feedback>>]_vars

\* Another user's download of a completed job has been refused with 403,
\* after the owner has sent feedback on a job.
ForeignDownloadRefusedSeen ==
    \E p \in Clients :
        /\ pc[p] = "done"
        /\ req[p].op = "download"
        /\ req[p].arg \in DOMAIN jobs
        /\ jobs[req[p].arg].status = "completed"
        /\ jobs[req[p].arg].user_id # req[p].user_id
        /\ result[p].raised = "403"
        /\ feedback # <<>>

====
